---- MODULE Spec2Model ----
(***************************************************************************)
(* Contact form of scripts.js: validateForm, sendForm, the form's submit   *)
(* listener and the fields' input listeners, as a state machine over the   *)
(* DOM state they read and write.                                          *)
(*                                                                         *)
(* A string is a sequence of one-character strings, so that trim(), the    *)
(* length tests and the e-mail pattern are computed and not assumed.       *)
(***************************************************************************)
EXTENDS Integers, Sequences, FiniteSets, TLC

VARIABLES
  value,         \* value[c]: the .value of form control c (raw, untrimmed)
  errors,        \* errors[k]: the is-error class of fields[k] and the text of errors[k]
  notification,  \* the #formNotification element: hidden, textContent, className
  submitBtn,     \* the submit button and its two labels, as setSubmitting leaves them
  inflight,      \* bodies of the fetch() calls awaited by sendForm, in order of issue
  isValid,       \* what the last validateForm() returned: "true", "false", or "none" before any call
  response,      \* how the fetch() of the last resumed sendForm() settled (NoResponse before any)
  unhandled      \* TRUE once a sendForm() promise has rejected

vars == <<value, errors, notification, submitBtn, inflight, isValid, response, unhandled>>

---------------------------------------------------------------------------
(* Bounds of the model *)

\* Largest number of fetch() calls pending at once.
MaxInFlight == 2
\* Longest run of letters tried as a name by the validator specification.
MaxNameLen == 3
\* Longest run of letters tried as a message by the validator specification.
MaxMsgLen == 11
\* Most blanks put before and after a sample value.
MaxPad == 1

---------------------------------------------------------------------------
(* Strings *)

\* The characters String.prototype.trim() strips, which are also those \s
\* matches: the WhiteSpace and LineTerminator code points of ECMAScript. A
\* character that cannot be written in a string here stands as its code
\* point: "U+00A0" is the one character NO-BREAK SPACE.
WS ==
  {"\t", "\n", "U+000B", "\f", "\r", " ", "U+00A0", "U+1680",
   "U+2000", "U+2001", "U+2002", "U+2003", "U+2004", "U+2005", "U+2006",
   "U+2007", "U+2008", "U+2009", "U+200A", "U+2028", "U+2029", "U+202F",
   "U+205F", "U+3000", "U+FEFF"}

Str(n, c) == [i \in 1..n |-> c]

Pad(l, s, r) == Str(l, " ") \o s \o Str(r, " ")

SetMin(S) == CHOOSE x \in S : \A y \in S : x <= y

SetMax(S) == CHOOSE x \in S : \A y \in S : x >= y

\* A mutant of trim: the value is used as typed.
trim_identity(s) == s

\* String.prototype.trim(): drop the leading and the trailing white space.
trim(s) ==
  LET keep == {i \in 1..Len(s) : s[i] \notin WS}
  IN  IF keep = {} THEN <<>> ELSE SubSeq(s, SetMin(keep), SetMax(keep))

\* EMAIL_REGEX.test(s) for /^[^\s@]+@[^\s@]+\.[^\s@]+$/ : one "@" at i with
\* something before it, a "." at j after it with something on both sides,
\* and no white space and no other "@" anywhere.
EMAIL_REGEX(s) ==
  \E i \in 1..Len(s) : \E j \in 1..Len(s) :
    /\ s[i] = "@"
    /\ s[j] = "."
    /\ 1 < i
    /\ i + 1 < j
    /\ j < Len(s)
    /\ \A k \in 1..Len(s) : k # i => (s[k] \notin WS /\ s[k] # "@")

---------------------------------------------------------------------------
(* The form *)

\* Object.keys(fields): the validated controls.
FieldKeys == {"nombre", "email", "mensaje"}

\* The controls of the form (getFormData reads the same five).
Controls == {"nombre", "empresa", "email", "telefono", "mensaje"}

MinNameLen == 2

MinMsgLen == 10

\* The messages of the source, written without their accents and inverted marks.
MSG_NOMBRE_REQ == "El nombre es requerido."

MSG_NOMBRE_SHORT == "El nombre debe tener al menos 2 caracteres."

MSG_EMAIL_REQ == "El correo electronico es requerido."

MSG_EMAIL_FORMAT == "Ingrese un correo electronico valido."

MSG_MENSAJE_REQ == "El mensaje es requerido."

MSG_MENSAJE_SHORT == "El mensaje debe tener al menos 10 caracteres."

MSG_SUCCESS == "Mensaje enviado correctamente! Nos comunicaremos con usted a la brevedad."

MSG_FALLBACK == "Ocurrio un error al enviar el mensaje. Por favor intente de nuevo o contactenos directamente a Orintech.sas@gmail.com"

\* The value a control has in the page as loaded, which form.reset() restores.
DefaultValue == <<>>

\* field.classList.add('is-error'); errEl.textContent = msg
showFieldError(mark, msg) == [cls |-> TRUE, text |-> msg]

\* field.classList.remove('is-error'); errEl.textContent = ''
clearFieldError(mark) == [cls |-> FALSE, text |-> ""]

\* A mutant of clearAllErrors: the markers are left as they are.
clearAllErrors_none(errs) == errs

clearAllErrors(errs) == [k \in DOMAIN errs |-> clearFieldError(errs[k])]

\* Lines 201-208: the nombre rule on a validation in progress.
validateNombre(st, val) ==
  LET nombre == trim(val["nombre"])
  IN  IF nombre = <<>>
        THEN [errors |-> [st.errors EXCEPT !["nombre"] = showFieldError(@, MSG_NOMBRE_REQ)],
              isValid |-> FALSE]
        ELSE IF Len(nombre) < MinNameLen
          THEN [errors |-> [st.errors EXCEPT !["nombre"] = showFieldError(@, MSG_NOMBRE_SHORT)],
                isValid |-> FALSE]
          ELSE st

\* Lines 211-218: the email rule.
validateEmail(st, val) ==
  LET email == trim(val["email"])
  IN  IF email = <<>>
        THEN [errors |-> [st.errors EXCEPT !["email"] = showFieldError(@, MSG_EMAIL_REQ)],
              isValid |-> FALSE]
        ELSE IF ~EMAIL_REGEX(email)
          THEN [errors |-> [st.errors EXCEPT !["email"] = showFieldError(@, MSG_EMAIL_FORMAT)],
                isValid |-> FALSE]
          ELSE st

\* A mutant of validateMensaje: only the required check is made.
validateMensaje_requiredOnly(st, val) ==
  IF trim(val["mensaje"]) = <<>>
    THEN [errors |-> [st.errors EXCEPT !["mensaje"] = showFieldError(@, MSG_MENSAJE_REQ)],
          isValid |-> FALSE]
    ELSE st

\* Lines 221-228: the mensaje rule.
validateMensaje(st, val) ==
  LET mensaje == trim(val["mensaje"])
  IN  IF mensaje = <<>>
        THEN [errors |-> [st.errors EXCEPT !["mensaje"] = showFieldError(@, MSG_MENSAJE_REQ)],
              isValid |-> FALSE]
        ELSE IF Len(mensaje) < MinMsgLen
          THEN [errors |-> [st.errors EXCEPT !["mensaje"] = showFieldError(@, MSG_MENSAJE_SHORT)],
                isValid |-> FALSE]
          ELSE st

\* A mutant of validateForm: it returns at the first field that fails.
validateForm_shortCircuit(val, errs) ==
  LET s0 == [errors |-> clearAllErrors(errs), isValid |-> TRUE]
      s1 == validateNombre(s0, val)
      s2 == IF s1.isValid THEN validateEmail(s1, val) ELSE s1
      s3 == IF s2.isValid THEN validateMensaje(s2, val) ELSE s2
  IN  s3

\* validateForm(): the markers it leaves and the boolean it returns, from the
\* controls' values and the markers present before the call.
validateForm(val, errs) ==
  LET s0 == [errors |-> clearAllErrors(errs), isValid |-> TRUE]
      s1 == validateNombre(s0, val)
      s2 == validateEmail(s1, val)
      s3 == validateMensaje(s2, val)
  IN  s3

---------------------------------------------------------------------------
(* Submit button and notification *)

\* setSubmitting(isSubmitting): submitBtn.disabled, submitText.hidden,
\* submitLoad.hidden and submitLoad's aria-hidden attribute.
setSubmitting(isSubmitting) ==
  [disabled |-> isSubmitting, textHidden |-> isSubmitting,
   loadHidden |-> ~isSubmitting, loadAriaHidden |-> ~isSubmitting]

showNotification(message, type) ==
  [hidden |-> FALSE, textContent |-> message, className |-> "form-notification is-" \o type]

hideNotification ==
  [hidden |-> TRUE, textContent |-> "", className |-> "form-notification"]

---------------------------------------------------------------------------
(* sendForm *)

\* new FormData(form): the controls' values as they are when it is built.
FormData(val) == [c \in Controls |-> val[c]]

\* form.reset(): every control back to its default value.
formReset(val) == [c \in DOMAIN val |-> DefaultValue]

\* How a fetch() can settle: it resolves with a response (ok or not, its body
\* the JSON acknowledgement or not) or it rejects (network error, CORS).
Outcomes ==
  [kind : {"resolved"}, ok : BOOLEAN, json : BOOLEAN]
    \cup {[kind |-> "rejected", ok |-> FALSE, json |-> FALSE]}

\* A mutant of onSuccess: form.reset() is left out.
onSuccess_noReset(st) ==
  [st EXCEPT !.errors = clearAllErrors(@),
             !.notification = showNotification(MSG_SUCCESS, "success")]

\* Lines 357-364, the response.ok branch.
onSuccess(st) ==
  [st EXCEPT !.value = formReset(@),
             !.errors = clearAllErrors(@),
             !.notification = showNotification(MSG_SUCCESS, "success")]

\* A mutant of onError: the form is reset on a failure too.
onError_reset(st) ==
  [st EXCEPT !.value = formReset(@),
             !.notification = showNotification(MSG_FALLBACK, "error")]

\* Lines 370-376, the catch block: the error is logged and replaced by the
\* fixed message; nothing is thrown again.
onError(st) ==
  [st EXCEPT !.notification = showNotification(MSG_FALLBACK, "error")]

\* Line 379, the finally block.
onFinally(st) == [st EXCEPT !.submitBtn = setSubmitting(FALSE)]

\* A mutant of sendFormSettled: setSubmitting(false) sits at the end of the try
\* block, so that the catch path skips it.
sendFormSettled_noFinally(resp, st) ==
  IF resp.kind = "resolved" /\ resp.ok THEN onFinally(onSuccess(st)) ELSE onError(st)

\* A mutant of sendFormSettled: the body is parsed, and a body that is not the
\* JSON acknowledgement throws into the catch block.
sendFormSettled_parsesJson(resp, st) ==
  onFinally(IF resp.kind = "resolved" /\ resp.ok /\ resp.json THEN onSuccess(st) ELSE onError(st))

\* sendForm() from the point where the awaited fetch() settles (lines 357-380):
\* a rejection and a response that is not ok both end in the catch block; only
\* response.ok is read, never the body.
sendFormSettled(resp, st) ==
  onFinally(IF resp.kind = "resolved" /\ resp.ok THEN onSuccess(st) ELSE onError(st))

---------------------------------------------------------------------------
(* Values a user types *)

EMAIL_OK == <<"a", "@", "b", ".", "c">>

EMAIL_NO_DOT == <<"a", "@", "b">>

\* The values tried in each control by the form's specification: for each
\* validated field an empty one, one that fails its second rule (for mensaje:
\* ten characters as typed, a form feed first, nine once trimmed) and one that
\* passes (for nombre with a blank before it). No code tells the two optional controls apart, so
\* one of them is edited and the other keeps its default.
Samples(c) ==
  CASE c = "nombre"   -> {<<>>, Str(MinNameLen - 1, "a"), Pad(1, Str(MinNameLen, "a"), 0)}
    [] c = "email"    -> {<<>>, EMAIL_NO_DOT, EMAIL_OK}
    [] c = "mensaje"  -> {<<>>, <<"\f">> \o Str(MinMsgLen - 1, "m"), Str(MinMsgLen, "m")}
    [] c = "empresa"  -> {<<>>, <<"x">>}
    [] c = "telefono" -> {<<>>}

NoErrors == [k \in FieldKeys |-> [cls |-> FALSE, text |-> ""]]

\* No sendForm() has been resumed yet.
NoResponse == [kind |-> "none", ok |-> FALSE, json |-> FALSE]

\* The boolean validateForm() returned, as isValid records it.
Returned(b) == IF b THEN "true" ELSE "false"

---------------------------------------------------------------------------
(* The form's state machine *)

\* The page as loaded: controls at their defaults, no marker, no notification,
\* the button enabled, nothing sent.
Init ==
  /\ value = [c \in Controls |-> DefaultValue]
  /\ errors = NoErrors
  /\ notification = hideNotification
  /\ submitBtn = setSubmitting(FALSE)
  /\ inflight = <<>>
  /\ isValid = "none"
  /\ response = NoResponse
  /\ unhandled = FALSE

\* An 'input' event on control c, whose value is v when the listener runs (v
\* may be the value it had: the listener does not compare); the listener
\* (lines 421-426) clears the field's marker when one is shown.
Input(c, v) ==
  /\ value' = [value EXCEPT ![c] = v]
  /\ errors' = IF c \in FieldKeys /\ errors[c].text # ""
                 THEN [errors EXCEPT ![c] = clearFieldError(@)]
                 ELSE errors
  /\ UNCHANGED <<notification, submitBtn, inflight, isValid, response, unhandled>>

\* The form's 'submit' listener (lines 405-417), with the synchronous part of
\* sendForm (lines 340-355) when the form is valid. The listener does not read
\* submitBtn.disabled: it runs for every submit event it is given.
Submit ==
  LET v == validateForm(value, errors)
  IN  /\ v.isValid => Len(inflight) < MaxInFlight
      /\ errors' = v.errors
      /\ isValid' = Returned(v.isValid)
      /\ notification' = hideNotification
      /\ IF v.isValid
           THEN /\ submitBtn' = setSubmitting(TRUE)
                /\ inflight' = Append(inflight, FormData(value))
           ELSE UNCHANGED <<submitBtn, inflight>>
      /\ UNCHANGED <<value, response, unhandled>>

RemoveAt(s, i) == SubSeq(s, 1, i - 1) \o SubSeq(s, i + 1, Len(s))

\* The i-th pending fetch() settles as resp and its sendForm() runs to its end.
Complete(i, resp) ==
  LET st == sendFormSettled(resp,
              [value |-> value, errors |-> errors, notification |-> notification,
               submitBtn |-> submitBtn, unhandled |-> unhandled])
  IN  /\ i \in 1..Len(inflight)
      /\ inflight' = RemoveAt(inflight, i)
      /\ value' = st.value
      /\ errors' = st.errors
      /\ notification' = st.notification
      /\ submitBtn' = st.submitBtn
      /\ unhandled' = st.unhandled
      /\ response' = resp
      /\ UNCHANGED isValid

Settle == \E i \in 1..MaxInFlight + 1 : \E resp \in Outcomes : Complete(i, resp)

Next ==
  \/ \E c \in Controls : \E v \in Samples(c) : Input(c, v)
  \/ Submit
  \/ Settle

Spec == Init /\ [][Next]_vars

\* Every fetch() settles in the end: the assumption under which the form is
\* said to come back to idle.
LiveSpec == Spec /\ WF_vars(Settle)

---------------------------------------------------------------------------
(* validateForm as a function of the values and of the markers it finds *)

EmailSamplesV ==
  { <<>>,
    <<" ">>,
    EMAIL_OK,
    Pad(1, EMAIL_OK, 1),
    EMAIL_NO_DOT,
    <<"a", "b", ".", "c">>,
    <<"@", "b", ".", "c">>,
    <<"a", "@", ".", "c">>,
    <<"a", "@", "b", ".">>,
    <<"a", " ", "b", "@", "c", ".", "d">>,
    <<"a", "@", "b", "@", "c", ".", "d">>,
    <<"a", ".", "b", "@", "c", ".", "d", ".", "e">>,
    <<"a", "@", "b", ".", "c", "@">>,
    <<"a", "\f", "@", "b", ".", "c">>,
    <<"a", "@", "b", ".", "U+00A0", "c">>,
    <<"\r", "a", "@", "b", ".", "c", "U+3000">>,
    <<"U+FEFF">> }

NameSamplesV ==
  {Pad(l, Str(n, "a"), r) : l \in 0..MaxPad, r \in 0..MaxPad, n \in 0..MaxNameLen}
    \cup { <<"\f", "\f">>,
           <<"\r", "a", "U+00A0">>,
           <<"U+2028", "a", "a", "\f">>,
           <<"a", "\f", "a">> }

MsgSamplesV ==
  {Pad(l, Str(n, "m"), r) :
     l \in 0..MaxPad, r \in 0..MaxPad, n \in {0} \cup ((MinMsgLen - 2)..MaxMsgLen)}
    \cup { <<"\f">> \o Str(MinMsgLen - 1, "m") \o <<"\r">>,
           <<"U+00A0">> \o Str(MinMsgLen, "m") \o <<"U+000B">>,
           Str(MinMsgLen - 2, "\f") \o <<"m", "m">>,
           Str(MinMsgLen - 2, "m") \o <<"\f", "m">> }

FieldMessages(k) ==
  CASE k = "nombre"  -> {MSG_NOMBRE_REQ, MSG_NOMBRE_SHORT}
    [] k = "email"   -> {MSG_EMAIL_REQ, MSG_EMAIL_FORMAT}
    [] k = "mensaje" -> {MSG_MENSAJE_REQ, MSG_MENSAJE_SHORT}

\* The markers an earlier validateForm() can have left on field k.
Markers(k) ==
  {[cls |-> FALSE, text |-> ""]} \cup {[cls |-> TRUE, text |-> m] : m \in FieldMessages(k)}

\* Any values in the three validated fields, any markers left by an earlier call.
InitV ==
  /\ \E n \in NameSamplesV : \E e \in EmailSamplesV : \E m \in MsgSamplesV :
       value = [c \in Controls |->
                  CASE c = "nombre" -> n [] c = "email" -> e [] c = "mensaje" -> m
                    [] OTHER -> DefaultValue]
  /\ \E a \in Markers("nombre") : \E b \in Markers("email") : \E d \in Markers("mensaje") :
       errors = [k \in FieldKeys |->
                   CASE k = "nombre" -> a [] k = "email" -> b [] k = "mensaje" -> d]
  /\ notification = hideNotification
  /\ submitBtn = setSubmitting(FALSE)
  /\ inflight = <<>>
  /\ isValid = "none"
  /\ response = NoResponse
  /\ unhandled = FALSE

\* One call of validateForm() (line 412).
ValidateForm ==
  LET v == validateForm(value, errors)
  IN  /\ errors' = v.errors
      /\ isValid' = Returned(v.isValid)
      /\ UNCHANGED <<value, notification, submitBtn, inflight, response, unhandled>>

NextV == ValidateForm

SpecV == InitV /\ [][NextV]_vars

---------------------------------------------------------------------------
(* The validation rules, stated apart from validateForm *)

\* White space by code point: tab to carriage return, the space, and the
\* Unicode spaces, separators and byte order mark.
Blank(ch) ==
  \/ ch \in {"\t", "\n", "U+000B", "\f", "\r", " "}
  \/ ch \in {"U+00A0", "U+1680", "U+2028", "U+2029", "U+202F", "U+205F", "U+3000", "U+FEFF"}
  \/ ch \in {"U+2000", "U+2001", "U+2002", "U+2003", "U+2004", "U+2005",
              "U+2006", "U+2007", "U+2008", "U+2009", "U+200A"}

RECURSIVE StripLeft(_)
StripLeft(s) == IF s # <<>> /\ Blank(Head(s)) THEN StripLeft(Tail(s)) ELSE s

RECURSIVE StripRight(_)
StripRight(s) ==
  IF s # <<>> /\ Blank(s[Len(s)]) THEN StripRight(SubSeq(s, 1, Len(s) - 1)) ELSE s

Stripped(s) == StripRight(StripLeft(s))

\* The sample addresses that have the shape x@y.z .
MatchingEmails == {EMAIL_OK, <<"a", ".", "b", "@", "c", ".", "d", ".", "e">>}

\* The message field k must show for the raw value, "" when it passes.
RuleMessage(k, raw) ==
  LET t == Stripped(raw)
  IN  CASE k = "nombre" ->
             IF t = <<>> THEN MSG_NOMBRE_REQ
             ELSE IF Len(t) < 2 THEN MSG_NOMBRE_SHORT ELSE ""
        [] k = "email" ->
             IF t = <<>> THEN MSG_EMAIL_REQ
             ELSE IF t \notin MatchingEmails THEN MSG_EMAIL_FORMAT ELSE ""
        [] k = "mensaje" ->
             IF t = <<>> THEN MSG_MENSAJE_REQ
             ELSE IF Len(t) < 10 THEN MSG_MENSAJE_SHORT ELSE ""

RuleMarker(k, raw) ==
  IF RuleMessage(k, raw) = ""
    THEN [cls |-> FALSE, text |-> ""]
    ELSE [cls |-> TRUE, text |-> RuleMessage(k, raw)]

Idle == ~submitBtn.disabled /\ ~submitBtn.textHidden /\ submitBtn.loadHidden

SuccessShown ==
  notification = [hidden |-> FALSE, textContent |-> MSG_SUCCESS,
                  className |-> "form-notification is-success"]

ErrorShown ==
  notification = [hidden |-> FALSE, textContent |-> MSG_FALLBACK,
                  className |-> "form-notification is-error"]

IsSuccess(resp) == resp.kind = "resolved" /\ resp.ok

---------------------------------------------------------------------------
(* Claims *)

\* C1: at most one form-submission request is in flight in every reachable
\* state; a submit event that arrives while a request is pending starts no
\* second one.
C1_AtMostOneInFlight == Len(inflight) <= 1

\* C2: every submission sendForm starts brings the state back to idle with the
\* button enabled, whatever the outcome: each settled request leaves the
\* button enabled with its idle label, and while a request is pending or the
\* button is disabled the idle state is reached in the end.
C2_ReturnsToIdle ==
  /\ [][Len(inflight') < Len(inflight) => Idle']_vars
  /\ ((Len(inflight) > 0 \/ submitBtn.disabled) ~> Idle)

\* C2 witness: a request that failed has settled and the form is idle again.
C2_Witness ==
  /\ response # NoResponse
  /\ ~IsSuccess(response)
  /\ inflight = <<>>
  /\ Idle

\* C3: when a request settles with a success status, in the resulting state
\* every control is empty, no field has an error marker or message, and the
\* notification shown is the success notification.
C3_SuccessClearsForm ==
  [][\A i \in 1..Len(inflight) : \A resp \in Outcomes :
       (IsSuccess(resp) /\ Complete(i, resp)) =>
         /\ \A c \in Controls : value'[c] = <<>>
         /\ \A k \in FieldKeys : ~errors'[k].cls /\ errors'[k].text = ""
         /\ SuccessShown']_vars

\* C3 witness: a success has just been handled: the form is empty and clean
\* and the success notification is up.
C3_Witness ==
  /\ response # NoResponse
  /\ IsSuccess(response)
  /\ SuccessShown
  /\ \A c \in Controls : value[c] = <<>>
  /\ errors = NoErrors

\* C4: when a submission fails (a status that is not a success, or the request
\* throwing), the controls keep their values, the notification shown is the
\* error notification with the one fixed message, and nothing is thrown out of
\* sendForm.
C4_FailureKeepsForm ==
  [][\A i \in 1..Len(inflight) : \A resp \in Outcomes :
       (~IsSuccess(resp) /\ Complete(i, resp)) =>
         /\ value' = value
         /\ ErrorShown'
         /\ ~unhandled']_vars

\* C4 witness: a rejected request has been handled with the form still filled.
C4_Witness ==
  /\ response # NoResponse
  /\ response.kind = "rejected"
  /\ ErrorShown
  /\ \A k \in FieldKeys : RuleMessage(k, value[k]) = ""
  /\ ~unhandled

\* C5: after validateForm, each field is marked exactly when its trimmed value
\* fails its own rule, with the one message of the first rule it fails (the
\* required message before the length or format message), whatever the other
\* fields hold; and the call returned true exactly when no field is marked.
C5_ValidateFormRules ==
  isValid # "none" =>
    /\ \A k \in FieldKeys : errors[k] = RuleMarker(k, value[k])
    /\ (isValid = "true") <=> (\A k \in FieldKeys : ~errors[k].cls /\ errors[k].text = "")

\* C5 witness: one call has marked all three fields, each for its second rule.
C5_Witness ==
  /\ isValid = "false"
  /\ errors["nombre"] = [cls |-> TRUE, text |-> MSG_NOMBRE_SHORT]
  /\ errors["email"] = [cls |-> TRUE, text |-> MSG_EMAIL_FORMAT]
  /\ errors["mensaje"] = [cls |-> TRUE, text |-> MSG_MENSAJE_SHORT]

\* C6: a submit event whose values fail validation issues no request, leaves
\* the submission state idle and the button enabled, and leaves no
\* notification shown; a request is issued only in a step in which
\* validateForm returned true.
C6_InvalidSubmitLeavesIdle ==
  [][/\ (Submit /\ isValid' = "false") =>
          (inflight' = inflight /\ Idle' /\ notification'.hidden)
     /\ (Submit /\ Len(inflight') > Len(inflight)) => isValid' = "true"]_vars

\* C7: while the state is submitting, the error markers, the submission state
\* and the notification are changed by nothing but the pending sendForm call
\* settling, and no listener changes a control's value.
C7_ExclusiveWhileSubmitting ==
  [][(submitBtn.disabled /\ ~Settle) =>
       /\ UNCHANGED <<errors, submitBtn, notification>>
       /\ (Submit => value' = value)]_vars

\* C8: validateForm starts from a clean slate and is idempotent: what it
\* leaves and returns is what it leaves and returns when no marker was there
\* before, no marker that the values do not call for survives the call, and a
\* second call on the same values changes nothing.
C8_ValidateFormIdempotent ==
  [][ValidateForm =>
       /\ /\ errors' = validateForm(value, NoErrors).errors
          /\ isValid' = Returned(validateForm(value, NoErrors).isValid)
       /\ \A k \in FieldKeys : errors[k] # RuleMarker(k, value[k]) => errors'[k] # errors[k]
       /\ isValid # "none" => (errors' = errors /\ isValid' = isValid)]_vars

\* C8 witness: validateForm has run on values that pass (the name and the
\* message padded with blanks) and has left no marker.
C8_Witness ==
  /\ isValid = "true"
  /\ errors = NoErrors
  /\ Len(value["nombre"]) > Len(Stripped(value["nombre"]))
  /\ Len(value["mensaje"]) > Len(Stripped(value["mensaje"]))

\* C9 as stated: a response with a success status whose body is not the JSON
\* acknowledgement ends in the failure outcome: the error notification with
\* the fixed message, the controls not cleared.
C9_MalformedIsFailure ==
  [][\A i \in 1..Len(inflight) : \A resp \in Outcomes :
       (IsSuccess(resp) /\ ~resp.json /\ Complete(i, resp)) =>
         (value' = value /\ ErrorShown')]_vars

\* C9 amended: the body of the response is never read. A response with a
\* success status ends in the success outcome whether or not its body is the
\* JSON acknowledgement (success notification, controls cleared); the failure
\* outcome (error notification with the fixed message, controls kept) is that
\* of a failure status and of a request that does not complete.
C9_OutcomeByStatusAlone ==
  [][\A i \in 1..Len(inflight) : \A resp \in Outcomes :
       Complete(i, resp) =>
         /\ (resp.kind = "resolved" /\ resp.ok /\ ~resp.json) =>
              (SuccessShown' /\ \A c \in Controls : value'[c] = <<>>)
         /\ (resp.kind = "rejected" \/ ~resp.ok) => (ErrorShown' /\ value' = value)]_vars

\* C9 witness: a response with a success status and a malformed body has been
\* handled as a success.
C9_Witness ==
  /\ response # NoResponse
  /\ response.kind = "resolved"
  /\ response.ok
  /\ ~response.json
  /\ SuccessShown

\* C10: every pending request carries values that satisfy the rules once
\* trimmed; a request is issued in the very step that validated the values it
\* carries; and no later step changes what a pending request carries.
C10_SentValuesAreValid ==
  [][/\ \A i \in 1..Len(inflight') : \A k \in FieldKeys :
          RuleMessage(k, inflight'[i][k]) = ""
     /\ Len(inflight') > Len(inflight) =>
          /\ inflight' = Append(inflight, [c \in Controls |-> value[c]])
          /\ isValid' = "true"
          /\ value' = value
     /\ Len(inflight') = Len(inflight) => inflight' = inflight
     /\ Len(inflight') < Len(inflight) =>
          \E i \in 1..Len(inflight) : inflight' = RemoveAt(inflight, i)]_vars

\* C10 witness: a request is pending and a validated field has since been
\* edited to a value that fails its rule.
C10_Witness ==
  \E i \in 1..Len(inflight) : \E k \in FieldKeys :
    /\ inflight[i][k] # value[k]
    /\ RuleMessage(k, value[k]) # ""

====
